---- MODULE Spec2Model ----
(***************************************************************************)
(* DeepGuard: the sampling-and-inference pipeline.                         *)
(*                                                                         *)
(*   src/src/pages/Index.tsx                       the page: file          *)
(*       selection, extractFrames, analyzeWithAI                           *)
(*   src/supabase/functions/analyze-deepfake/index.ts   the edge function: *)
(*       request validation, the upstream model call, result parsing       *)
(*                                                                         *)
(* Text is modelled as a sequence of tokens: the two braces, prose words,  *)
(* and comma-separated lists of JSON members.  Video time is modelled as   *)
(* an exact fraction num/den of the duration's unit.                       *)
(***************************************************************************)
EXTENDS Integers, Sequences, FiniteSets, TLC

VARIABLES
    \* ---- the page (Index.tsx) ----
    selectedVideo,   \* useState<File | null>: the file's id, NoFile for null
    videoPreview,    \* useState<string | null>: the previewed file's id, NoFile for null
    isScanning,      \* useState(false)
    scanResult,      \* useState<ScanResult | null>
    toast,           \* the last toast shown
    pc,              \* where analyzeWithAI is suspended
    response,        \* the Response the page's fetch resolved with
    \* ---- one extractFrames call (Index.tsx 39-86) ----
    exPc,            \* the promise and the decoder: idle, loading, seeking, ...
    exFile,          \* videoFile
    numFrames,       \* numFrames
    duration,        \* video.duration
    currentFrame,    \* currentFrame
    currentTime,     \* video.currentTime, a fraction
    frames,          \* frames
    objectUrl,       \* the object URL behind video.src: none, held, revoked
    seeks,           \* assignments to video.currentTime made by this call
    \* ---- the edge function (analyze-deepfake/index.ts) ----
    ePc,             \* idle, pending, upstream, replied
    eReq,            \* the request being served
    eResp,           \* the Response returned
    apiKey,          \* whether LOVABLE_API_KEY is set in the environment
    content,         \* the content array sent upstream
    upstreamCalls,   \* upstream fetches issued for the request being served
    upStatus,        \* the upstream response's status (0: none)
    aiResponse,      \* data.choices[0].message.content
    interpretRan     \* whether the result parsing ran for this request

vars == << selectedVideo, videoPreview, isScanning, scanResult, toast, pc, response,
           exPc, exFile, numFrames, duration, currentFrame, currentTime, frames, objectUrl,
           seeks,
           ePc, eReq, eResp, apiKey, content, upstreamCalls, upStatus, aiResponse,
           interpretRan >>

pageVars == << selectedVideo, videoPreview, isScanning, scanResult, toast, pc, response >>
exVars   == << exPc, exFile, numFrames, duration, currentFrame, currentTime, frames, objectUrl,
              seeks >>
edgeVars == << ePc, eReq, eResp, apiKey, content, upstreamCalls, upStatus, aiResponse,
               interpretRan >>

(***************************************************************************)
(* Bounds of the model.                                                    *)
(***************************************************************************)
MaxTextLen == 3      \* tokens in a raw model text
MaxNumFrames == 4    \* numFrames of a direct extractFrames call
MaxDuration == 3     \* video.duration, in whole units
NumVideos == 2       \* distinct video files the user can pick

(***************************************************************************)
(* JSON values.                                                            *)
(***************************************************************************)
JBool(b) == [t |-> "boolean", b |-> b]
JNum(n)  == [t |-> "number", n |-> n]
JStr(s)  == [t |-> "string", s |-> s]       \* s: a text (sequence of tokens)
JArr(a)  == [t |-> "array", a |-> a]        \* a: a sequence of strings
Undefined == [t |-> "undefined"]
Null == [t |-> "null"]

(***************************************************************************)
(* Tokens of a text.                                                       *)
(***************************************************************************)
LB == [kind |-> "{"]
RB == [kind |-> "}"]
Word(w) == [kind |-> "word", text |-> w]
Members(o) == [kind |-> "members", obj |-> o]   \* "k1":v1,"k2":v2,...

\* Scenario A of the specification: {"isAuthentic":true,"confidence":95,"issues":[],"details":"ok"}
VerdictA == [isAuthentic |-> JBool(TRUE), confidence |-> JNum(95),
             issues |-> JArr(<<>>), details |-> JStr(<<Word("ok")>>)]
\* all four fields, the confidence out of range
VerdictOver == [isAuthentic |-> JBool(FALSE), confidence |-> JNum(150),
                issues |-> JArr(<<"blur">>), details |-> JStr(<<Word("DEEPFAKE")>>)]
\* all four fields, the confidence not a number
VerdictTyped == [isAuthentic |-> JBool(FALSE), confidence |-> JStr(<<Word("high")>>),
                 issues |-> JArr(<<>>), details |-> JStr(<<Word("ok")>>)]
\* one field only
VerdictPart == [isAuthentic |-> JBool(TRUE)]
\* none of the four fields
VerdictNone == [note |-> JStr(<<Word("DEEPFAKE")>>)]

MemberLists == {VerdictA, VerdictOver, VerdictTyped, VerdictPart, VerdictNone}

Words == {"Authentic", "genuine", "DEEPFAKE", "prose"}

Tokens == {LB, RB} \cup {Word(w) : w \in Words} \cup {Members(o) : o \in MemberLists}

TextsOfLen(n) == [1..n -> Tokens]
AllTexts == UNION {TextsOfLen(n) : n \in 0..MaxTextLen}

(***************************************************************************)
(* String.prototype.toLowerCase and String.prototype.includes, on words.   *)
(***************************************************************************)
toLowerCase(w) ==
    CASE w = "Authentic" -> "authentic"
      [] w = "DEEPFAKE"  -> "deepfake"
      [] w = "isAuthentic" -> "isauthentic"
      [] OTHER -> w

\* whether the lower-case word w has needle as a substring
wordIncludes(w, needle) ==
    \/ w = needle
    \/ w = "isauthentic" /\ needle = "authentic"

RECURSIVE textIncludesLower(_, _)
tokenIncludesLower(tok, needle) ==
    CASE tok.kind = "word" -> wordIncludes(toLowerCase(tok.text), needle)
      [] tok.kind = "members" ->
            \E k \in DOMAIN tok.obj :
                \/ wordIncludes(toLowerCase(k), needle)
                \/ /\ tok.obj[k].t = "string"
                   /\ textIncludesLower(tok.obj[k].s, needle)
                \/ /\ tok.obj[k].t = "array"
                   /\ \E j \in 1..Len(tok.obj[k].a) :
                          wordIncludes(toLowerCase(tok.obj[k].a[j]), needle)
      [] OTHER -> FALSE
textIncludesLower(text, needle) ==
    \E i \in 1..Len(text) : tokenIncludesLower(text[i], needle)

(***************************************************************************)
(* aiResponse.match(/\{[\s\S]*\}/): from the first "{" to the last "}".    *)
(***************************************************************************)
NoMatch == <<[kind |-> "null"]>>      \* match returned null

Positions(text, tok) == {i \in 1..Len(text) : text[i] = tok}
Min(S) == CHOOSE x \in S : \A y \in S : x <= y
Max(S) == CHOOSE x \in S : \A y \in S : x >= y

jsonMatch(text) ==
    LET opens  == Positions(text, LB)
        closes == Positions(text, RB)
    IN  IF opens # {} /\ closes # {} /\ Min(opens) < Max(closes)
        THEN SubSeq(text, Min(opens), Max(closes))
        ELSE NoMatch

(***************************************************************************)
(* JSON.parse of a matched substring: an object with at most one member    *)
(* list between its braces; anything else is a SyntaxError.                *)
(***************************************************************************)
JSONparse(m) ==
    LET inner == SubSeq(m, 2, Len(m) - 1)
    IN  IF Len(inner) = 0
        THEN [ok |-> TRUE, value |-> <<>>]
        ELSE IF Len(inner) = 1 /\ inner[1].kind = "members"
        THEN [ok |-> TRUE, value |-> inner[1].obj]
        ELSE [ok |-> FALSE, value |-> <<>>]

Sentinel == "Analysis completed but structured data unavailable"

\* the heuristic without its "genuine" test
FallbackIsAuthentic_NoGenuine(text) ==
    \/ textIncludesLower(text, "authentic")
    \/ ~textIncludesLower(text, "deepfake")

FallbackIsAuthentic(text) ==
    \/ textIncludesLower(text, "authentic")
    \/ textIncludesLower(text, "genuine")
    \/ ~textIncludesLower(text, "deepfake")

FallbackResult(text) ==
    LET isAuthentic == FallbackIsAuthentic(text)
    IN  [isAuthentic |-> JBool(isAuthentic),
         confidence  |-> JNum(70),
         issues      |-> JArr(IF isAuthentic THEN <<>> ELSE <<Sentinel>>),
         details     |-> JStr(text)]

\* whether the try block of the result parsing throws
ParseThrows(text) ==
    \/ jsonMatch(text) = NoMatch
    \/ ~JSONparse(jsonMatch(text)).ok

\* the result parsing with the parsed object dropped for the heuristic
InterpretResult_AlwaysFallback(text) == FallbackResult(text)

InterpretResult(text) ==
    IF ParseThrows(text)
    THEN FallbackResult(text)
    ELSE JSONparse(jsonMatch(text)).value

(***************************************************************************)
(* The edge function: serve(async (req) => ...).                           *)
(***************************************************************************)
NoFramesMsg  == "No frames provided"
NoKeyMsg     == "LOVABLE_API_KEY is not configured"
RateLimitMsg == "Rate limit exceeded. Please try again later."
PaymentMsg   == "Payment required. Please add credits to your workspace."
BadBodyMsg   == "Unexpected end of JSON input"
FetchFailMsg == "error sending request"
NoChoicesMsg == "Cannot read properties of undefined (reading '0')"
NotTextMsg   == "Cannot read properties of null (reading 'toLowerCase')"
\* `AI API error: ${response.status} ${errorText}`
GatewayMsg(status) ==
    CASE status = 500 -> "AI API error: 500 upstream error text"
      [] status = 503 -> "AI API error: 503 upstream error text"
      [] status = 429 -> "AI API error: 429 upstream error text"
      [] OTHER -> "AI API error: 402 upstream error text"

OtherStatuses == {500, 503}   \* upstream statuses that are neither 2xx, 429 nor 402

NoRequest  == [from |-> "none", method |-> "none", body |-> [kind |-> "none"]]
NoResponse == [status |-> 0, body |-> Null]
JsonResponse(status, body) == [status |-> status, body |-> body]
ErrorResponse(status, msg) == JsonResponse(status, [error |-> msg])

\* !frames || !Array.isArray(frames) || frames.length === 0
FramesRejected(body) ==
    \/ body.frames.t # "array"
    \/ Len(body.frames.a) = 0

\* the content array with the first frame left out of the image references
BuildContent_SkipFirst(fs) ==
    <<[type |-> "text", count |-> Len(fs)]>>
        \o [i \in 1..(Len(fs) - 1) |-> [type |-> "image_url", url |-> fs[i + 1]]]

\* the content array: the instruction block, then one image reference per frame
BuildContent(fs) ==
    <<[type |-> "text", count |-> Len(fs)]>>
        \o [i \in 1..Len(fs) |-> [type |-> "image_url", url |-> fs[i]]]

\* a request arrives: a new invocation of the handler, its locals fresh
Arrive(req) ==
    /\ ePc' = "pending"
    /\ eReq' = req
    /\ eResp' = NoResponse
    /\ content' = <<>>
    /\ upstreamCalls' = 0
    /\ upStatus' = 0
    /\ aiResponse' = <<>>
    /\ interpretRan' = FALSE
    /\ UNCHANGED apiKey

\* whether the handler gets as far as reading the credential
ReachesKeyCheck(req) ==
    /\ req.method # "OPTIONS"
    /\ req.body.kind = "json"
    /\ ~FramesRejected(req.body)

\* the credential check left out
KeyCheckPasses_Always(key) == TRUE

\* if (!LOVABLE_API_KEY) throw ...
KeyCheckPasses(key) == key

\* the handler from its start to the upstream fetch, or to an early Response
EdgeServe ==
    /\ ePc = "pending"
    /\ IF ReachesKeyCheck(eReq) /\ KeyCheckPasses(apiKey)
       THEN /\ content' = BuildContent(eReq.body.frames.a)
            /\ upstreamCalls' = upstreamCalls + 1
            /\ ePc' = "upstream"
            /\ eResp' = eResp
       ELSE /\ eResp' = IF eReq.method = "OPTIONS" THEN JsonResponse(200, Null)
                        ELSE IF eReq.body.kind # "json" THEN ErrorResponse(500, BadBodyMsg)
                        ELSE IF FramesRejected(eReq.body) THEN ErrorResponse(400, NoFramesMsg)
                        ELSE ErrorResponse(500, NoKeyMsg)
            /\ ePc' = "replied"
            /\ UNCHANGED << content, upstreamCalls >>
    /\ UNCHANGED << eReq, apiKey, upStatus, aiResponse, interpretRan >>
    /\ UNCHANGED << pageVars, exVars >>

NotAString == <<[kind |-> "null"]>>   \* message.content that is no string (null)

\* the upstream fetch rejects, or answers with a body the handler cannot use
UpstreamOutcomes ==
    {[kind |-> "reject",    status |-> 0],
     [kind |-> "status",    status |-> 429],
     [kind |-> "status",    status |-> 402],
     [kind |-> "badjson",   status |-> 200],
     [kind |-> "nochoices", status |-> 200],
     [kind |-> "nonstring", status |-> 200]}
        \cup {[kind |-> "status", status |-> s] : s \in OtherStatuses}

\* the error mapping without its 429 branch
UpstreamErrorResponse_No429(status) ==
    IF status = 402 THEN ErrorResponse(402, PaymentMsg)
    ELSE ErrorResponse(500, GatewayMsg(status))

\* if (!response.ok) { ... }
UpstreamErrorResponse(status) ==
    IF status = 429 THEN ErrorResponse(429, RateLimitMsg)
    ELSE IF status = 402 THEN ErrorResponse(402, PaymentMsg)
    ELSE ErrorResponse(500, GatewayMsg(status))

UpstreamFails(o) ==
    /\ ePc = "upstream"
    /\ upStatus' = o.status
    /\ eResp' = CASE o.kind = "reject"    -> ErrorResponse(500, FetchFailMsg)
                  [] o.kind = "status"    -> UpstreamErrorResponse(o.status)
                  [] o.kind = "badjson"   -> ErrorResponse(500, BadBodyMsg)
                  [] o.kind = "nochoices" -> ErrorResponse(500, NoChoicesMsg)
                  [] o.kind = "nonstring" -> ErrorResponse(500, NotTextMsg)
    /\ interpretRan' = (o.kind = "nonstring")
    /\ aiResponse' = IF o.kind = "nonstring" THEN NotAString ELSE aiResponse
    /\ ePc' = "replied"
    /\ UNCHANGED << eReq, apiKey, content, upstreamCalls >>
    /\ UNCHANGED << pageVars, exVars >>

\* the upstream call answers 2xx with a text in choices[0].message.content
UpstreamText(text) ==
    /\ ePc = "upstream"
    /\ upStatus' = 200
    /\ aiResponse' = text
    /\ interpretRan' = TRUE
    /\ eResp' = JsonResponse(200, InterpretResult(text))
    /\ ePc' = "replied"
    /\ UNCHANGED << eReq, apiKey, content, upstreamCalls >>
    /\ UNCHANGED << pageVars, exVars >>

(***************************************************************************)
(* Callers of the endpoint other than the page (a browser's preflight,     *)
(* any HTTP client).                                                       *)
(***************************************************************************)
ExternalFrame == [src |-> 0, at |-> [num |-> 0, den |-> 1]]

ExternalRequests ==
    {[from |-> "other", method |-> "OPTIONS", body |-> [kind |-> "none"]],
     [from |-> "other", method |-> "POST", body |-> [kind |-> "unreadable"]],
     [from |-> "other", method |-> "POST", body |-> [kind |-> "json", frames |-> Undefined]],
     [from |-> "other", method |-> "POST", body |-> [kind |-> "json", frames |-> JStr(<<>>)]],
     [from |-> "other", method |-> "POST", body |-> [kind |-> "json", frames |-> JArr(<<>>)]],
     [from |-> "other", method |-> "POST",
      body |-> [kind |-> "json", frames |-> JArr(<<ExternalFrame>>)]]}

ExternalRequest(req) ==
    /\ ePc \in {"idle", "replied"}
    /\ pc \notin {"requesting"}
    /\ Arrive(req)
    /\ UNCHANGED << pageVars, exVars >>

(***************************************************************************)
(* Initial state: the page as mounted, no extractFrames call, no request.  *)
(***************************************************************************)
NoFile == 0
NoToast == [title |-> "", description |-> "", variant |-> ""]
Zero == [num |-> 0, den |-> 1]

PageInit ==
    /\ selectedVideo = NoFile
    /\ videoPreview = NoFile
    /\ isScanning = FALSE
    /\ scanResult = Null
    /\ toast = NoToast
    /\ pc = "idle"
    /\ response = NoResponse

ExInit ==
    /\ exPc = "idle"
    /\ exFile = NoFile
    /\ numFrames = 0
    /\ duration = 0
    /\ currentFrame = 0
    /\ currentTime = Zero
    /\ frames = <<>>
    /\ objectUrl = "none"
    /\ seeks = 0

EdgeInit ==
    /\ ePc = "idle"
    /\ eReq = NoRequest
    /\ eResp = NoResponse
    /\ apiKey \in BOOLEAN
    /\ content = <<>>
    /\ upstreamCalls = 0
    /\ upStatus = 0
    /\ aiResponse = <<>>
    /\ interpretRan = FALSE

Init == PageInit /\ ExInit /\ EdgeInit

(***************************************************************************)
(* extractFrames(videoFile, numFrames): Index.tsx 39-86.                   *)
(***************************************************************************)
\* const interval = duration / (numFrames + 1), with the divisor off by one
interval_OverN(d, n) == [num |-> d, den |-> n]

\* const interval = duration / (numFrames + 1)
interval(d, n) == [num |-> d, den |-> n + 1]

\* const timeToSeek = interval * (currentFrame + 1)
timeToSeek(iv, cf) == [num |-> iv.num * (cf + 1), den |-> iv.den]

\* new Promise(...): the element is created, the object URL made, the load begun
extractFrames(file, n) ==
    /\ exPc' = "loading"
    /\ exFile' = file
    /\ numFrames' = n
    /\ duration' = 0
    /\ currentFrame' = 0
    /\ currentTime' = Zero
    /\ frames' = <<>>
    /\ objectUrl' = "held"
    /\ seeks' = 0

\* captureFrame() with the test currentFrame > numFrames
captureFrame_OffByOne(cf, fs) ==
    IF cf > numFrames
    THEN /\ objectUrl' = "revoked"
         /\ exPc' = "resolved"
         /\ currentTime' = currentTime
         /\ seeks' = seeks
    ELSE /\ currentTime' = timeToSeek(interval(duration', numFrames), cf)
         /\ exPc' = "seeking"
         /\ objectUrl' = objectUrl
         /\ seeks' = seeks + 1

\* captureFrame(), entered with currentFrame = cf and the frames fs
captureFrame(cf, fs) ==
    IF cf >= numFrames
    THEN /\ objectUrl' = "revoked"
         /\ exPc' = "resolved"
         /\ currentTime' = currentTime
         /\ seeks' = seeks
    ELSE /\ currentTime' = timeToSeek(interval(duration', numFrames), cf)
         /\ exPc' = "seeking"
         /\ objectUrl' = objectUrl
         /\ seeks' = seeks + 1

\* video.onloadedmetadata
LoadedMetadata(d) ==
    /\ exPc = "loading"
    /\ duration' = d
    /\ currentFrame' = 0
    /\ captureFrame(0, frames)
    /\ UNCHANGED << exFile, numFrames, frames >>
    /\ UNCHANGED << pageVars, edgeVars >>

\* video.onseeked
Seeked ==
    /\ exPc = "seeking"
    /\ frames' = Append(frames, [src |-> exFile, at |-> currentTime])
    /\ currentFrame' = currentFrame + 1
    /\ duration' = duration
    /\ captureFrame(currentFrame + 1, frames')
    /\ UNCHANGED << exFile, numFrames >>
    /\ UNCHANGED << pageVars, edgeVars >>

\* video.onerror
VideoError ==
    /\ exPc \in {"loading", "seeking"}
    /\ objectUrl' = "revoked"
    /\ exPc' = "rejected"
    /\ UNCHANGED << exFile, numFrames, duration, currentFrame, currentTime, frames,
                    seeks >>
    /\ UNCHANGED << pageVars, edgeVars >>

\* the decoder never signals the seek: neither seeked nor error will arrive
SeekNeverCompletes ==
    /\ exPc = "seeking"
    /\ exPc' = "stalled"
    /\ UNCHANGED << exFile, numFrames, duration, currentFrame, currentTime, frames,
                    objectUrl, seeks >>
    /\ UNCHANGED << pageVars, edgeVars >>

(***************************************************************************)
(* The page: handleFileSelect, analyzeWithAI.                              *)
(***************************************************************************)
ScanFrames == 5      \* extractFrames(selectedVideo, 5)

Files ==
    {[id |-> i, type |-> "video/mp4"] : i \in 1..NumVideos}
        \cup {[id |-> NumVideos + 1, type |-> "image/png"],
              [id |-> NumVideos + 1, type |-> ""]}

\* file.type.startsWith("video/")
startsWithVideo(type) == type \in {"video/mp4", "video/webm", "video/quicktime"}

Toast(title, description, variant) ==
    [title |-> title, description |-> description, variant |-> variant]
FailedToast(msg) == Toast("Analysis Failed", msg, "destructive")

\* handleFileSelect without the return after the "Invalid File" toast
handleFileSelect_NoReturn(file) ==
    /\ toast' = IF ~startsWithVideo(file.type)
                THEN Toast("Invalid File", "Please select a valid video file",
                           "destructive")
                ELSE toast
    /\ selectedVideo' = file.id
    /\ videoPreview' = file.id
    /\ scanResult' = Null
    /\ UNCHANGED << isScanning, pc, response >>
    /\ UNCHANGED << exVars, edgeVars >>

handleFileSelect(file) ==
    /\ IF ~startsWithVideo(file.type)
       THEN /\ toast' = Toast("Invalid File", "Please select a valid video file",
                              "destructive")
            /\ UNCHANGED << selectedVideo, videoPreview, scanResult >>
       ELSE /\ selectedVideo' = file.id
            /\ videoPreview' = file.id
            /\ scanResult' = Null
            /\ toast' = toast
    /\ UNCHANGED << isScanning, pc, response >>
    /\ UNCHANGED << exVars, edgeVars >>

\* the scan button without its disabled={isScanning}
ScanButtonEnabled_NeverDisabled == videoPreview # NoFile

\* the scan button is rendered with the preview and disabled while scanning
ScanButtonEnabled == videoPreview # NoFile /\ ~isScanning

\* analyzeWithAI, from the click to the await of extractFrames
AnalyzeStart ==
    /\ ScanButtonEnabled
    /\ selectedVideo # NoFile
    /\ isScanning' = TRUE
    /\ scanResult' = Null
    /\ toast' = Toast("Extracting Frames", "Analyzing video frames with AI...", "")
    /\ extractFrames(selectedVideo, ScanFrames)
    /\ pc' = "extracting"
    /\ response' = NoResponse
    /\ UNCHANGED << selectedVideo, videoPreview >>
    /\ UNCHANGED edgeVars

\* the catch block without the finally block
CatchFinally_KeepsScanning(msg) ==
    /\ toast' = FailedToast(msg)
    /\ isScanning' = isScanning
    /\ pc' = "errored"

\* catch (error) { toast(...) } finally { setIsScanning(false) }
CatchFinally(msg) ==
    /\ toast' = FailedToast(msg)
    /\ isScanning' = FALSE
    /\ pc' = "errored"

\* extractFrames resolved: the second toast, then fetch(apiUrl, ...).
\* The function is modelled serving one request at a time: invocations of
\* the handler share no state, so the request waits for the one before it.
AnalyzeFetch ==
    /\ pc = "extracting"
    /\ exPc = "resolved"
    /\ ePc \in {"idle", "replied"}
    /\ toast' = Toast("Analyzing with AI",
                      "Our AI is examining the video for deepfake indicators...", "")
    /\ Arrive([from |-> "page", method |-> "POST",
               body |-> [kind |-> "json", frames |-> JArr(frames)]])
    /\ pc' = "requesting"
    /\ UNCHANGED << selectedVideo, videoPreview, isScanning, scanResult, response >>
    /\ UNCHANGED exVars

\* extractFrames rejected
AnalyzeExtractFailed ==
    /\ pc = "extracting"
    /\ exPc = "rejected"
    /\ CatchFinally("Failed to load video")
    /\ UNCHANGED << selectedVideo, videoPreview, scanResult, response >>
    /\ UNCHANGED << exVars, edgeVars >>

\* the request never reaches the function: fetch rejects, the catch block runs
AnalyzeFetchRejected ==
    /\ pc = "requesting"
    /\ ePc = "pending"
    /\ eReq.from = "page"
    /\ CatchFinally("Failed to fetch")
    /\ ePc' = "idle"
    /\ eReq' = NoRequest
    /\ UNCHANGED << selectedVideo, videoPreview, scanResult, response >>
    /\ UNCHANGED << eResp, apiKey, content, upstreamCalls, upStatus, aiResponse,
                    interpretRan >>
    /\ UNCHANGED exVars

Unreadable == [t |-> "unreadable"]     \* a body that is not JSON

\* what the hosting platform answers in the function's place
PlatformResponses ==
    {JsonResponse(401, [message |-> "Invalid JWT"]),
     JsonResponse(504, Unreadable)}

\* fetch resolves: with the function's Response, or with the platform's
AnalyzeFetchResolved(r) ==
    /\ pc = "requesting"
    /\ eReq.from = "page"
    /\ \/ /\ ePc = "replied"
          /\ r = eResp
          /\ UNCHANGED << ePc, eReq >>
       \/ /\ ePc = "pending"
          /\ r \in PlatformResponses
          /\ ePc' = "idle"
          /\ eReq' = NoRequest
    /\ response' = r
    /\ pc' = "reading"
    /\ UNCHANGED << selectedVideo, videoPreview, isScanning, scanResult, toast >>
    /\ UNCHANGED << eResp, apiKey, content, upstreamCalls, upStatus, aiResponse,
                    interpretRan >>
    /\ UNCHANGED exVars

ok(r) == r.status >= 200 /\ r.status <= 299

\* a property read: undefined when the object has no such key
Get(o, k) == IF k \in DOMAIN o THEN o[k] ELSE Undefined

\* JavaScript truthiness
Truthy(v) ==
    CASE v.t = "boolean" -> v.b
      [] v.t = "number"  -> v.n # 0
      [] v.t = "string"  -> Len(v.s) > 0
      [] v.t = "array"   -> TRUE
      [] OTHER -> FALSE

\* setScanResult({ isAuthentic, confidence, issues: result.issues || [] })
ScanResultOf(result) ==
    [isAuthentic |-> Get(result, "isAuthentic"),
     confidence  |-> Get(result, "confidence"),
     issues      |-> IF Truthy(Get(result, "issues")) THEN Get(result, "issues")
                     ELSE JArr(<<>>)]

\* await response.json(), then the error branch or the result branch
AnalyzeReadBody ==
    /\ pc = "reading"
    /\ IF response.body = Unreadable \/ response.body = Null
       THEN /\ CatchFinally(BadBodyMsg)
            /\ scanResult' = scanResult
       ELSE IF ~ok(response)
       THEN /\ CatchFinally(IF "error" \in DOMAIN response.body
                            THEN response.body.error ELSE "Analysis failed")
            /\ scanResult' = scanResult
       ELSE /\ scanResult' = ScanResultOf(response.body)
            /\ toast' = IF Truthy(Get(response.body, "isAuthentic"))
                        THEN Toast("Video Verified",
                                   "This video appears to be authentic", "default")
                        ELSE Toast("Deepfake Detected",
                                   "Suspicious patterns detected in the video",
                                   "destructive")
            /\ isScanning' = FALSE
            /\ pc' = "done"
    /\ UNCHANGED << selectedVideo, videoPreview, response >>
    /\ UNCHANGED << exVars, edgeVars >>

(***************************************************************************)
(* EdgeSpec: the edge function alone, served by arbitrary callers, the     *)
(* upstream model answering with any text of at most MaxTextLen tokens.    *)
(***************************************************************************)
EdgeNext ==
    \/ \E req \in ExternalRequests : ExternalRequest(req)
    \/ EdgeServe
    \/ \E o \in UpstreamOutcomes : UpstreamFails(o)
    \/ \E text \in AllTexts : UpstreamText(text)

EdgeSpec == Init /\ [][EdgeNext]_vars

(***************************************************************************)
(* Claims about the result interpretation, checked under EdgeSpec.         *)
(***************************************************************************)
VerdictKeys == {"isAuthentic", "confidence", "issues", "details"}

\* a Verdict: all four fields, each of its type
WellFormedVerdict(v) ==
    /\ VerdictKeys \subseteq DOMAIN v
    /\ v.isAuthentic.t = "boolean"
    /\ v.confidence.t = "number"
    /\ v.issues.t = "array"
    /\ v.details.t = "string"

\* the handler has answered a request whose upstream call returned a text
InterpretedText ==
    /\ ePc = "replied"
    /\ upStatus = 200
    /\ interpretRan
    /\ aiResponse # NotAString

\* no "{" stands before a "}" in the text
NoObjectSubstring(text) ==
    ~ \E i, j \in 1..Len(text) : i < j /\ text[i] = LB /\ text[j] = RB

\* C1: for every raw model text the result interpretation raises nothing
\* (the handler answers 200) and yields a Verdict with all four fields,
\* isAuthentic a boolean, confidence a number, issues an array, details a
\* string.
C1_InterpretTotalWellFormed ==
    InterpretedText =>
        /\ eResp.status = 200
        /\ WellFormedVerdict(eResp.body)

\* C8: when the text holds no JSON-object substring, or the matched
\* substring does not parse, the handler answers 200 with isAuthentic =
\* (has "authentic") or (has "genuine") or not (has "deepfake"), matched
\* case-insensitively, confidence 70, issues empty when authentic and else
\* the one sentinel string, and details the full raw text.
C8_FallbackVerdict ==
    (InterpretedText
        /\ (NoObjectSubstring(aiResponse) \/ ~JSONparse(jsonMatch(aiResponse)).ok))
    => LET authentic == \/ textIncludesLower(aiResponse, "authentic")
                        \/ textIncludesLower(aiResponse, "genuine")
                        \/ ~textIncludesLower(aiResponse, "deepfake")
       IN  /\ eResp.status = 200
           /\ DOMAIN eResp.body = VerdictKeys
           /\ eResp.body.isAuthentic = JBool(authentic)
           /\ eResp.body.confidence = JNum(70)
           /\ eResp.body.issues =
                 JArr(IF authentic THEN <<>>
                      ELSE <<"Analysis completed but structured data unavailable">>)
           /\ eResp.body.details = JStr(aiResponse)

\* Scenario B (prose naming a deepfake, no JSON) has been answered: not
\* authentic, the one sentinel issue.
C8_Witness ==
    /\ InterpretedText
    /\ aiResponse = <<Word("prose"), Word("DEEPFAKE")>>
    /\ eResp.body.isAuthentic = JBool(FALSE)
    /\ Len(eResp.body.issues.a) = 1

\* C9: when the raw text is exactly a JSON object with the four Verdict
\* fields, the handler answers 200 with that object, its fields unchanged;
\* the answer depends on the raw text alone.
C9_StructuredRoundTrip ==
    \A o \in MemberLists :
        (InterpretedText /\ WellFormedVerdict(o) /\ aiResponse = <<LB, Members(o), RB>>)
        => /\ eResp.status = 200
           /\ eResp.body = o

\* Scenario A has been answered: confidence 95, authentic, no issues.
C9_Witness ==
    /\ InterpretedText
    /\ aiResponse = <<LB, Members(VerdictA), RB>>
    /\ eResp.body.confidence = JNum(95)
    /\ eResp.body.isAuthentic = JBool(TRUE)

(***************************************************************************)
(* Spec: the page, its extractFrames call, the edge function and the       *)
(* other callers of the endpoint.                                          *)
(***************************************************************************)
RawSamples ==
    {<<>>,
     <<LB, RB>>,
     <<LB, Members(VerdictA), RB>>,
     <<LB, Members(VerdictOver), RB>>,
     <<LB, Members(VerdictTyped), RB>>,
     <<Word("prose"), Word("DEEPFAKE")>>,
     <<Word("genuine"), Word("Authentic")>>}

ExtractNext ==
    \/ \E d \in 1..MaxDuration : LoadedMetadata(d)
    \/ Seeked
    \/ VideoError
    \/ SeekNeverCompletes

PageNext ==
    \/ \E file \in Files : handleFileSelect(file)
    \/ AnalyzeStart
    \/ AnalyzeFetch
    \/ AnalyzeExtractFailed
    \/ AnalyzeFetchRejected
    \/ \E r \in PlatformResponses \cup {eResp} : AnalyzeFetchResolved(r)
    \/ AnalyzeReadBody

FunctionNext ==
    \/ EdgeServe
    \/ \E o \in UpstreamOutcomes : UpstreamFails(o)
    \/ \E text \in RawSamples : UpstreamText(text)

Next ==
    \/ PageNext
    \/ ExtractNext
    \/ FunctionNext
    \/ \E req \in ExternalRequests : ExternalRequest(req)

Spec == Init /\ [][Next]_vars

(***************************************************************************)
(* SamplerSpec: extractFrames alone, called with any numFrames from 1 to   *)
(* MaxNumFrames.                                                           *)
(***************************************************************************)
CallExtractFrames(file, n) ==
    /\ exPc \in {"idle", "resolved", "rejected"}
    /\ extractFrames(file, n)
    /\ UNCHANGED << pageVars, edgeVars >>

SamplerNext ==
    \/ \E file \in 1..NumVideos, n \in 1..MaxNumFrames : CallExtractFrames(file, n)
    \/ ExtractNext

SamplerSpec == Init /\ [][SamplerNext]_vars

(***************************************************************************)
(* FairSpec: Spec with the scheduling the runtime gives.  A continuation   *)
(* whose promise has settled runs; the handler serves a request it has     *)
(* received; an event the decoder or the upstream will deliver is          *)
(* delivered.  A stalled seek delivers nothing, and neither the user nor   *)
(* other callers are obliged to act.                                       *)
(***************************************************************************)
FairSpec ==
    /\ Spec
    /\ WF_vars(AnalyzeFetch)
    /\ WF_vars(AnalyzeExtractFailed)
    /\ WF_vars(AnalyzeFetchResolved(eResp))
    /\ WF_vars(AnalyzeReadBody)
    /\ WF_vars(EdgeServe)
    /\ WF_vars(\E d \in 1..MaxDuration : LoadedMetadata(d))
    /\ WF_vars(Seeked)
    /\ WF_vars(\/ \E o \in UpstreamOutcomes : UpstreamFails(o)
               \/ \E text \in RawSamples : UpstreamText(text))

(***************************************************************************)
(* Claims about extractFrames and the submission.                          *)
(***************************************************************************)
\* fraction a < fraction b
Less(a, b) == a.num * b.den < b.num * a.den

\* C2: a successful extractFrames(video, n), n >= 1, on a source of duration
\* D > 0 resolves with exactly n frames, captured at seek targets that are
\* strictly increasing and each strictly inside (0, D).
C2_FramesInsideIncreasing ==
    (exPc = "resolved" /\ numFrames >= 1 /\ duration > 0) =>
        /\ Len(frames) = numFrames
        /\ \A i \in 1..Len(frames) :
              /\ Less(Zero, frames[i].at)
              /\ Less(frames[i].at, [num |-> duration, den |-> 1])
        /\ \A i \in 1..(Len(frames) - 1) : Less(frames[i].at, frames[i + 1].at)

\* three frames of a source of duration 2 have been captured, the second at 1
C2_Witness ==
    /\ exPc = "resolved"
    /\ numFrames = 3
    /\ duration = 2
    /\ Len(frames) = 3
    /\ frames[2].at = [num |-> 4, den |-> 4]

\* C3: a seek that never signals completion makes the sampling fail (a seek
\* timeout), so the submission still ends, in Errored.
C3_StalledSeekEndsErrored ==
    (pc = "extracting" /\ exPc = "stalled") ~> (pc = "errored")

\* C4: when the upstream call returned 429, the submission ends Errored, and
\* enters Errored with the rate-limit message; scanResult is null and the
\* result parsing never ran for the request.
C4_RateLimitErrored ==
    /\ []((/\ pc \in {"done", "errored"}
           /\ response # NoResponse
           /\ eReq.from = "page"
           /\ ePc = "replied"
           /\ upStatus = 429)
          => /\ pc = "errored"
             /\ scanResult = Null
             /\ ~interpretRan)
    /\ [][(/\ pc = "reading"
           /\ pc' # "reading"
           /\ eReq.from = "page"
           /\ ePc = "replied"
           /\ upStatus = 429)
          => /\ pc' = "errored"
             /\ toast' = FailedToast("Rate limit exceeded. Please try again later.")
             /\ scanResult' = Null]_vars

\* a submission has ended on an upstream 429
C4_Witness ==
    /\ pc = "errored"
    /\ response.status = 429
    /\ eReq.from = "page"
    /\ upStatus = 429
    /\ upstreamCalls = 1

\* C5 as claimed: with the credential absent every request is answered with
\* an error response, and no upstream call is issued for it.
C5_NoKeyEveryRequestFails ==
    (~apiKey /\ ePc = "replied") =>
        /\ eResp.status >= 400
        /\ "error" \in DOMAIN eResp.body
        /\ upstreamCalls = 0

\* C5 as amended: with the credential absent no upstream call is issued on
\* any path, every request other than an OPTIONS preflight is answered with
\* an error response (400 or 500), and a request that reaches the credential
\* check is answered 500 "LOVABLE_API_KEY is not configured".
C5_NoKeyNoUpstreamCall ==
    ~apiKey =>
        /\ upstreamCalls = 0
        /\ ePc # "upstream"
        /\ upStatus = 0
        /\ (ePc = "replied" /\ eReq.method # "OPTIONS") =>
              /\ eResp.status \in {400, 500}
              /\ "error" \in DOMAIN eResp.body
        /\ (ePc = "replied" /\ ReachesKeyCheck(eReq)) =>
              eResp = ErrorResponse(500, "LOVABLE_API_KEY is not configured")

\* the page's request, frames and all, has been refused for the missing key
C5_Witness ==
    /\ ~apiKey
    /\ ePc = "replied"
    /\ eReq.from = "page"
    /\ Len(eReq.body.frames.a) = ScanFrames
    /\ eResp = ErrorResponse(500, NoKeyMsg)
    /\ upstreamCalls = 0

\* C6: a submission that fails, at whatever stage, surfaces a failure
\* message as it enters Errored, and in Errored isScanning is false,
\* scanResult is null, the scan button is enabled and a new submission can
\* start.
C6_FailureRecovers ==
    /\ [](pc = "errored" =>
            /\ ~isScanning
            /\ scanResult = Null
            /\ ScanButtonEnabled
            /\ ENABLED AnalyzeStart)
    /\ [][(pc # "errored" /\ pc' = "errored") =>
            /\ toast'.title = "Analysis Failed"
            /\ toast'.variant = "destructive"
            /\ toast'.description # ""]_vars

\* a submission has failed on reading the body of a non-2xx response
C6_Witness ==
    /\ pc = "errored"
    /\ response.status = 504
    /\ toast = FailedToast(BadBodyMsg)
    /\ ~isScanning

\* C7: the object URL extractFrames creates is held while the sampling is
\* under way and released when it ends; no sampling ends, or is suspended
\* for ever, with the URL still held.
C7_HandleReleased ==
    /\ exPc \in {"loading", "seeking"} => objectUrl = "held"
    /\ exPc \in {"resolved", "rejected", "stalled"} => objectUrl = "revoked"

\* C10: every Verdict in scanResult has a confidence that is a number in
\* [0, 100].
C10_ConfidenceInRange ==
    scanResult # Null =>
        /\ scanResult.confidence.t = "number"
        /\ scanResult.confidence.n >= 0
        /\ scanResult.confidence.n <= 100

\* C11: selecting a file whose declared media type is not a video type is
\* rejected with the "Invalid File" report only: selectedVideo, videoPreview
\* and scanResult keep their values, and neither the sampling nor the page's
\* submission nor the edge function moves.
C11_NonVideoRejected ==
    [][\A file \in Files :
          (~startsWithVideo(file.type) /\ handleFileSelect(file)) =>
              /\ toast' = Toast("Invalid File", "Please select a valid video file",
                                "destructive")
              /\ UNCHANGED << selectedVideo, videoPreview, scanResult >>
              /\ UNCHANGED << isScanning, pc, response >>
              /\ UNCHANGED << exVars, edgeVars >>]_vars

\* a non-video file has been refused while a video is selected and its
\* verdict is shown
C11_Witness ==
    /\ toast.title = "Invalid File"
    /\ selectedVideo # NoFile
    /\ videoPreview = selectedVideo
    /\ scanResult # Null
    /\ pc = "done"

\* the frames of the request being served
RequestFrames == eReq.body.frames.a

\* the edge function is serving, or has served, the current submission
ServingSubmission ==
    /\ eReq.from = "page"
    /\ pc = "requesting" \/ response # NoResponse

\* C12: the content sent upstream is one instruction block that names the
\* number of frames supplied, followed by one image reference per frame in
\* the order supplied; for a submission of the page these are the frames
\* extractFrames captured, each once, in capture order, which is the order
\* of ascending time.
C12_ContentIsFramesInOrder ==
    /\ upstreamCalls >= 1 =>
          /\ Len(content) = Len(RequestFrames) + 1
          /\ content[1] = [type |-> "text", count |-> Len(RequestFrames)]
          /\ \A i \in 1..Len(RequestFrames) :
                content[i + 1] = [type |-> "image_url", url |-> RequestFrames[i]]
    /\ ServingSubmission =>
          /\ RequestFrames = frames
          /\ Len(frames) = ScanFrames
          /\ \A i \in 1..Len(frames) : frames[i].src = exFile
          /\ \A i \in 1..(Len(frames) - 1) : Less(frames[i].at, frames[i + 1].at)

\* the five frames of a submission have reached the upstream request
C12_Witness ==
    /\ ServingSubmission
    /\ pc = "requesting"
    /\ ePc = "upstream"
    /\ upstreamCalls = 1
    /\ Len(content) = ScanFrames + 1
    /\ content[ScanFrames + 1].url = frames[ScanFrames]

\* a submission has started and has reached neither Done nor Errored
InFlight == pc \in {"extracting", "requesting", "reading"}

\* C13: a page instance has at most one submission in flight: isScanning is
\* true exactly while a submission is in flight, the scan button is then
\* disabled, and analyzeWithAI starts an extraction only when no submission
\* is in flight (none yet, or the previous one in Done or Errored).
C13_SingleFlight ==
    /\ [](/\ isScanning <=> InFlight
          /\ InFlight => ~ScanButtonEnabled /\ ~ENABLED AnalyzeStart)
    /\ [][AnalyzeStart => (~InFlight /\ InFlight')]_vars

\* a submission is in flight, waiting for the upstream reply, and the button
\* is disabled
C13_Witness ==
    /\ pc = "requesting"
    /\ isScanning
    /\ videoPreview # NoFile
    /\ ~ScanButtonEnabled
    /\ ePc = "upstream"
    /\ toast.title = "Analyzing with AI"

\* C14: the seeks of one extractFrames call are strictly sequential: a seek
\* is issued only when every earlier seek's frame has been captured and
\* appended, so at most one seek is outstanding, and the seeks issued never
\* exceed the frames captured plus one, nor numFrames.
C14_SeeksSequential ==
    /\ [](/\ Len(frames) <= seeks
          /\ seeks <= Len(frames) + 1
          /\ seeks <= numFrames
          /\ exPc \in {"seeking", "stalled"} => seeks = Len(frames) + 1
          /\ exPc \in {"loading", "resolved"} => seeks = Len(frames))
    /\ [][seeks' = seeks + 1 =>
            /\ seeks = Len(frames')
            /\ exPc # "seeking" \/ Len(frames') = Len(frames) + 1
            /\ exPc' = "seeking"]_vars

\* the third seek is outstanding, two frames captured
C14_Witness ==
    /\ exPc = "seeking"
    /\ numFrames = MaxNumFrames
    /\ seeks = 3
    /\ Len(frames) = 2
    /\ currentTime = timeToSeek(interval(duration, numFrames), 2)

\* C15: whenever scanResult is non-null, it was computed from the frames of
\* the video that is selected now: the verdict of a video selected earlier
\* is never shown once a different video has been selected.  (While
\* scanResult is non-null no extraction has started since the one that
\* produced it, so exFile and frames are those it was computed from.)
C15_VerdictOfSelectedVideo ==
    scanResult # Null =>
        /\ exFile = selectedVideo
        /\ \A i \in 1..Len(frames) : frames[i].src = selectedVideo

\* C16: every request the handler takes through its pipeline (every request
\* but the CORS preflight, which lines 9-11 answer 200 with no body) ends
\* with exactly one response and no exception escaping: none while the
\* request is being served, one once it is served.  The status is 200 only
\* after an upstream call that answered 2xx, and the body is then a Verdict;
\* on every failure path (frames missing or empty, request body unreadable,
\* credential missing, upstream 429, 402, other non-2xx, upstream body
\* unusable) the status is one of 400, 402, 429, 500 and the body is a JSON
\* object with an error field.
C16_OneJsonResponse ==
    /\ ePc \in {"pending", "upstream"} => eResp = NoResponse
    /\ (ePc = "replied" /\ eReq.method # "OPTIONS") =>
          /\ eResp # NoResponse
          /\ eResp.status \in {200, 400, 402, 429, 500}
          /\ eResp.status = 200 =>
                /\ upstreamCalls = 1
                /\ upStatus = 200
                /\ WellFormedVerdict(eResp.body)
          /\ eResp.status # 200 =>
                /\ DOMAIN eResp.body = {"error"}
                /\ eResp.body.error # ""
          /\ (upstreamCalls = 0 \/ upStatus # 200) => eResp.status # 200

====
